---- MODULE Spec2Model ----
(***************************************************************************)
(* A model of src/src/udp_radio.rs: the bridge between a LoRaWAN device    *)
(* engine (lorawan_device, an opaque collaborator) and a Semtech UDP       *)
(* packet forwarder transport.                                             *)
(*                                                                         *)
(*   UdpRadioRuntime::run   the Event Router                               *)
(*   run_loop               the Driver Loop                                *)
(*   UdpRadio::timer        the Timer Service                              *)
(*   UdpRadio::handle_event the Radio Adapter                              *)
(*                                                                         *)
(* Time is the shared monotonic clock in milliseconds.  Every              *)
(* "tokio::spawn(delay_for(d); send(ev))" is a sleeper task in the bag     *)
(* `tasks`.  The engine is a black box: what it asks of the radio and what *)
(* it answers are nondeterministic inputs of the Driver Loop.              *)
(***************************************************************************)
EXTENDS Integers, Sequences, FiniteSets, Bags, TLC

VARIABLES
    now,            \* INSTANT.elapsed() in ms (shared clock)
    queue,          \* the internal mpsc channel of IntermediateEvent
    tasks,          \* bag of spawned sleeper tasks that have not finished
    pc,             \* where run_loop stands
    cur,            \* the event run_loop dequeued, with `time`
    jitterWake,     \* end of the NewSession jitter sleep
    pending,        \* what run_loop does once its telemetry send completes
    crashCause,     \* why run_loop ended ("none" while it runs)
    routerPc,       \* where UdpRadioRuntime::run stands
    routerLast,     \* the branch the router took for the last record it read
    prometheus,     \* whether run_loop was given a telemetry sender
    sinkOpen,       \* whether the telemetry receiver is still alive
    stats,          \* the telemetry channel
    rx_buffer,      \* UdpRadio.rx_buffer
    settings,       \* UdpRadio.settings.rfconfig
    outbound,       \* the udp_runtime TxMessage channel (UdpRadio.sender)
    window_start,   \* UdpRadio.window_start
    jitter,         \* UdpRadio.jitter
    radioResult,    \* what the last UdpRadio::handle_event call returned
    transmit_delay, \* run_loop's transmit_delay argument
    deveui          \* lorawan.get_credentials().deveui()

vars == << now, queue, tasks, pc, cur, jitterWake, pending, crashCause,
           routerPc, routerLast, prometheus, sinkOpen, stats, rx_buffer,
           settings, outbound, window_start, jitter, radioResult,
           transmit_delay, deveui >>

driverVars == << pc, cur, jitterWake, pending, crashCause >>
radioVars == << rx_buffer, settings, outbound, window_start, radioResult >>
configVars == << prometheus, jitter, transmit_delay, deveui >>
sinkVars == << sinkOpen, stats >>
routerVars == << routerPc, routerLast >>

(***************************************************************************)
(* Program constants                                                       *)
(***************************************************************************)
RX_CAPACITY == 256      \* HVec<u8, U256>
GUARD_MS == 50          \* delay_for(delay + 50)
JITTER_MASK == 127      \* get_random_u32() & 0x7F
US_PER_MS == 1000       \* n / 1000
RSSI_RX == 115          \* RxQuality::new(-115, 4), magnitude
SNR_RX == 4
RSSI_TX == 112          \* rssi: -112, magnitude

(***************************************************************************)
(* Bounds of the model                                                     *)
(***************************************************************************)
QueueCap == 2           \* capacity of the internal queue (100 in the source)
OutCap == 1             \* capacity of the outbound channel (set by the caller)
StatCap == 1            \* capacity of the telemetry channel (set by the caller)
MaxRx == 3              \* delayed deliveries sleeping at once
MaxDriverTasks == 1     \* timers and retry schedulers sleeping at once
MaxFine == 1            \* the clock is sampled at 0..MaxFine and once later
MaxDelay == 1           \* transmit_delay ranges over 0..MaxDelay
MaxJitter == 1          \* sampled jitter values 0..MaxJitter (of 0..127)

\* the clock readings of the model: the first milliseconds, and an instant by
\* which every delivery scheduled in them is due
MaxTime == MaxFine + 1 + GUARD_MS
TimePoints == (0..MaxFine) \cup { MaxTime }

(***************************************************************************)
(* Settings::get_datr, get_codr, get_freq.  A label is the sequence of its *)
(* characters, so that format!("{}{}") is a real concatenation.            *)
(***************************************************************************)
SpreadingFactors == { "_7", "_8", "_9", "_10", "_11", "_12" }
Bandwidths == { "_125KHZ", "_250KHZ", "_500KHZ" }
CodingRates == { "_4_5", "_4_6", "_4_7", "_4_8" }

SfLabel(sf) ==
    CASE sf = "_7"  -> << "S", "F", "7" >>
      [] sf = "_8"  -> << "S", "F", "8" >>
      [] sf = "_9"  -> << "S", "F", "9" >>
      [] sf = "_10" -> << "S", "F", "1", "0" >>
      [] sf = "_11" -> << "S", "F", "1", "1" >>
      [] sf = "_12" -> << "S", "F", "1", "2" >>

\* a bandwidth table that labels 250 kHz like 125 kHz
BwLabelMerged(bw) ==
    CASE bw = "_500KHZ" -> << "B", "W", "5", "0", "0" >>
      [] OTHER -> << "B", "W", "1", "2", "5" >>

BwLabel(bw) ==
    CASE bw = "_125KHZ" -> << "B", "W", "1", "2", "5" >>
      [] bw = "_250KHZ" -> << "B", "W", "2", "5", "0" >>
      [] bw = "_500KHZ" -> << "B", "W", "5", "0", "0" >>

get_datr(rfconfig) ==
    SfLabel(rfconfig.spreading_factor) \o BwLabel(rfconfig.bandwidth)

get_codr(rfconfig) ==
    CASE rfconfig.coding_rate = "_4_5" -> << "4", "/", "5" >>
      [] rfconfig.coding_rate = "_4_6" -> << "4", "/", "6" >>
      [] rfconfig.coding_rate = "_4_7" -> << "4", "/", "7" >>
      [] rfconfig.coding_rate = "_4_8" -> << "4", "/", "8" >>

\* frequency as f64 / 1_000_000.0: whole MHz and the remaining Hz
get_freq(rfconfig) ==
    [ mhz |-> rfconfig.frequency \div 1000000,
      hz  |-> rfconfig.frequency % 1000000 ]

RfConfig(sf, bw, cr, hz) ==
    [ spreading_factor |-> sf, bandwidth |-> bw, coding_rate |-> cr,
      frequency |-> hz ]

\* radio::RfConfig::default(), the settings of a fresh UdpRadio
DefaultRfConfig == RfConfig("_7", "_125KHZ", "_4_5", 0)

(***************************************************************************)
(* pretty_device: the device label                                         *)
(***************************************************************************)
HexDigit(d) ==
    CASE d < 10 -> << "0", "1", "2", "3", "4", "5", "6", "7", "8", "9" >>[d + 1]
      [] d = 10 -> "a"
      [] d = 11 -> "b"
      [] d = 12 -> "c"
      [] d = 13 -> "d"
      [] d = 14 -> "e"
      [] d = 15 -> "f"

\* hex::encode: two lowercase digits per byte
HexEncode(bytes) ==
    LET enc[i \in 0..Len(bytes)] ==
            IF i = 0 THEN << >>
            ELSE enc[i - 1] \o << HexDigit(bytes[i] \div 16),
                                  HexDigit(bytes[i] % 16) >>
    IN  enc[Len(bytes)]

UpperChar(c) ==
    CASE c = "a" -> "A"
      [] c = "b" -> "B"
      [] c = "c" -> "C"
      [] c = "d" -> "D"
      [] c = "e" -> "E"
      [] c = "f" -> "F"
      [] OTHER -> c

to_uppercase(s) == [ i \in 1..Len(s) |-> UpperChar(s[i]) ]

Reverse(s) == [ i \in 1..Len(s) |-> s[Len(s) + 1 - i] ]

\* hex.to_uppercase()[12..]
LabelSlice(s) == SubSeq(s, 13, Len(s))

pretty_device(creds) == LabelSlice(to_uppercase(HexEncode(Reverse(creds))))

\* the credentials of the modelled device
DevEui == << 1, 35, 69, 103, 137, 171, 205, 239 >>

\* device identities the label is studied on
DevEuis ==
    { DevEui,
      << 0, 0, 0, 0, 0, 0, 0, 0 >>,
      << 255, 255, 255, 255, 255, 255, 255, 255 >>,
      << 16, 32, 48, 64, 80, 96, 112, 128 >> }

(***************************************************************************)
(* base64::encode / base64::decode.  A text is a sequence of alphabet      *)
(* indices 0..63, with PAD for '=' and BAD_CHAR for a byte outside the     *)
(* alphabet.                                                               *)
(***************************************************************************)
PAD == 64
BAD_CHAR == 65

RECURSIVE Base64Encode(_)
Base64Encode(bytes) ==
    CASE Len(bytes) = 0 -> << >>
      [] Len(bytes) = 1 ->
            << bytes[1] \div 4, (bytes[1] % 4) * 16, PAD, PAD >>
      [] Len(bytes) = 2 ->
            << bytes[1] \div 4,
               (bytes[1] % 4) * 16 + bytes[2] \div 16,
               (bytes[2] % 16) * 4, PAD >>
      [] OTHER ->
            << bytes[1] \div 4,
               (bytes[1] % 4) * 16 + bytes[2] \div 16,
               (bytes[2] % 16) * 4 + bytes[3] \div 64,
               bytes[3] % 64 >> \o Base64Encode(SubSeq(bytes, 4, Len(bytes)))

\* the text without its trailing padding (at most two '=')
StripPad(text) ==
    LET n == Len(text)
    IN  IF n >= 2 /\ text[n] = PAD /\ text[n - 1] = PAD
            THEN SubSeq(text, 1, n - 2)
        ELSE IF n >= 1 /\ text[n] = PAD THEN SubSeq(text, 1, n - 1)
        ELSE text

RECURSIVE DecodeSymbols(_)
DecodeSymbols(sym) ==
    CASE Len(sym) = 0 -> << >>
      [] Len(sym) = 2 -> << sym[1] * 4 + sym[2] \div 16 >>
      [] Len(sym) = 3 ->
            << sym[1] * 4 + sym[2] \div 16,
               (sym[2] % 16) * 16 + sym[3] \div 4 >>
      [] OTHER ->
            << sym[1] * 4 + sym[2] \div 16,
               (sym[2] % 16) * 16 + sym[3] \div 4,
               (sym[3] % 4) * 64 + sym[4] >>
            \o DecodeSymbols(SubSeq(sym, 5, Len(sym)))

\* Ok(bytes) or Err: a byte outside the alphabet, padding inside the text,
\* a wrong length, or a last symbol with bits that belong to no byte
Base64Decode(text) ==
    LET sym == StripPad(text)
        n == Len(sym)
        bad == \/ Len(text) % 4 # 0
               \/ \E i \in 1..n : sym[i] >= PAD
               \/ n % 4 = 1
               \/ n % 4 = 2 /\ sym[n] % 16 # 0
               \/ n % 4 = 3 /\ sym[n] % 4 # 0
    IN  IF bad THEN [ ok |-> FALSE, bytes |-> << >> ]
        ELSE [ ok |-> TRUE, bytes |-> DecodeSymbols(sym) ]

Fill(n, b) == [ i \in 1..n |-> b ]

\* pull_resp packets the transport can carry: the txpk.data text of each
PacketData ==
    << Base64Encode(<< 202, 254 >>),
       << 16, BAD_CHAR, 16, 16 >>,
       Base64Encode(Fill(RX_CAPACITY, 171)),
       Base64Encode(Fill(RX_CAPACITY + 1, 171)),
       Base64Encode(<< 7 >>) >>

Packets == DOMAIN PacketData


(***************************************************************************)
(* The Radio Adapter: UdpRadio::handle_event                               *)
(***************************************************************************)
TxRequest(config, buffer) ==
    [ tag |-> "TxRequest", config |-> config, buffer |-> buffer, packet |-> 0 ]
RxRequest(config) ==
    [ tag |-> "RxRequest", config |-> config, buffer |-> << >>, packet |-> 0 ]
CancelRx ==
    [ tag |-> "CancelRx", config |-> DefaultRfConfig, buffer |-> << >>,
      packet |-> 0 ]
PhyEvent(p) ==
    [ tag |-> "PhyEvent", config |-> DefaultRfConfig, buffer |-> << >>,
      packet |-> p ]

NoResult == [ tag |-> "none", a |-> 0, b |-> 0 ]
TxDone(ms) == [ tag |-> "TxDone", a |-> ms, b |-> 0 ]
RadioIdle == [ tag |-> "Idle", a |-> 0, b |-> 0 ]
RxDone == [ tag |-> "RxDone", a |-> 0 - RSSI_RX, b |-> SNR_RX ]
\* the call does not return: an unwrap or a panic! inside it
RadioPanics == { "outboundFull", "decodeError", "rxOverflow" }
RadioPanic(cause) == [ tag |-> cause, a |-> 0, b |-> 0 ]

\* self.time.elapsed().as_micros(), and as_millis() as u32
ElapsedMicros == now * US_PER_MS
\* (every clock reading of the model is below 2^32, so the cast keeps it)
ElapsedMs32 == now

\* the RxPk built for a transmit
MakeRxPk(config, buffer) ==
    [ chan |-> 0,
      codr |-> get_codr(config),
      data |-> Base64Encode(buffer),
      datr |-> get_datr(config),
      freq |-> get_freq(config),
      lsnr |-> "5.5",
      modu |-> "LORA",
      rfch |-> 0,
      rssi |-> 0 - RSSI_TX,
      size |-> Len(buffer),
      stat |-> 1,
      tmst |-> ElapsedMicros ]

\* an outbound channel that never reports that it is full
OutboundNeverFull == TRUE

\* self.sender.try_send(packet): Err when the channel has no room
OutboundHasRoom == Len(outbound) < OutCap

\* a buffer that takes one byte more than its capacity
RxPushFitsOneMore(data) == Len(data) <= RX_CAPACITY + 1

\* rx_buffer.clear(), then push every byte: Err on the first push past the
\* capacity
RxPushFits(data) == Len(data) <= RX_CAPACITY

\* The outcome of handle_event(ev) in the current state: the response (or the
\* panic) and the adapter's fields after the call.
HandleEvent(ev) ==
    CASE ev.tag = "TxRequest" ->
            IF OutboundHasRoom
            THEN [ result   |-> TxDone(ElapsedMs32),
                   buffer   |-> rx_buffer,
                   config   |-> settings,
                   outbound |-> Append(outbound,
                                       MakeRxPk(ev.config, ev.buffer)) ]
            ELSE [ result   |-> RadioPanic("outboundFull"),
                   buffer   |-> rx_buffer,
                   config   |-> settings,
                   outbound |-> outbound ]
      [] ev.tag = "RxRequest" ->
            [ result |-> RadioIdle, buffer |-> rx_buffer,
              config |-> ev.config, outbound |-> outbound ]
      [] ev.tag = "CancelRx" ->
            [ result |-> RadioIdle, buffer |-> rx_buffer,
              config |-> settings, outbound |-> outbound ]
      [] ev.tag = "PhyEvent" ->
            LET dec == Base64Decode(PacketData[ev.packet])
            IN  IF ~dec.ok
                THEN [ result |-> RadioPanic("decodeError"),
                       buffer |-> rx_buffer,
                       config |-> settings, outbound |-> outbound ]
                ELSE IF ~RxPushFits(dec.bytes)
                THEN [ result |-> RadioPanic("rxOverflow"),
                       buffer |-> SubSeq(dec.bytes, 1, RX_CAPACITY),
                       config |-> settings, outbound |-> outbound ]
                ELSE [ result |-> RxDone, buffer |-> dec.bytes,
                       config |-> settings, outbound |-> outbound ]
      [] OTHER ->
            [ result |-> radioResult, buffer |-> rx_buffer,
              config |-> settings, outbound |-> outbound ]

\* the fields as a call that never stored a RadioConfig would leave them
ApplyRadioKeepsConfig(r) ==
    /\ rx_buffer' = r.buffer
    /\ settings' = settings
    /\ outbound' = r.outbound
    /\ radioResult' = r.result

\* the adapter's fields take the values the call left
ApplyRadio(r) ==
    /\ rx_buffer' = r.buffer
    /\ settings' = r.config
    /\ outbound' = r.outbound
    /\ radioResult' = r.result

(***************************************************************************)
(* Events, sleeper tasks, engine answers                                   *)
(***************************************************************************)
Ev(type, packet, delay) == [ type |-> type, packet |-> packet, delay |-> delay ]
NewSessionEv == Ev("NewSession", 0, 0)
TimeoutEv == Ev("Timeout", 0, 0)
SendPacketEv == Ev("SendPacket", 0, 0)
RxEv(p, d) == Ev("Rx", p, d)
NoEvent == Ev("none", 0, 0)

\* `time`: Some(time_received) for an Rx event, None otherwise
TimeOf(ev) ==
    IF ev.type = "Rx" THEN [ some |-> TRUE, t |-> ev.delay ]
    ELSE [ some |-> FALSE, t |-> 0 ]

\* A sleeper: delay_for(d), then send(ev).  It wakes at wraps * 2^32 + wake,
\* where wraps is 1 only for a timer whose u32 delay wrapped around.
Task(kind, ev, wake, wraps) ==
    [ kind |-> kind, ev |-> ev, wake |-> wake, wraps |-> wraps ]

\* delay_for has elapsed
Awake(t) == t.wraps = 0 /\ now >= t.wake

Spawn(t) == tasks (+) SetToBag({ t })
Finish(t) == tasks (-) SetToBag({ t })
Sleeping(kinds) == { t \in BagToSet(tasks) : t.kind \in kinds }
CountTasks(kinds) ==
    LET S == Sleeping(kinds)
        RECURSIVE Sum(_)
        Sum(T) == IF T = { } THEN 0
                  ELSE LET x == CHOOSE y \in T : TRUE
                       IN  CopiesIn(x, tasks) + Sum(T \ { x })
    IN  Sum(S)

Ok(tag, arg) == [ ok |-> TRUE, tag |-> tag, arg |-> arg, kind |-> "" ]
Err(layer, kind) == [ ok |-> FALSE, tag |-> layer, arg |-> 0, kind |-> kind ]

SessionErrorKinds ==
    { "RadioEventWhileIdle", "RadioEventWhileWaitingForRxWindow", "Other" }
NoSessionErrorKinds ==
    { "RadioEventWhileIdle", "RadioEventWhileWaitingForJoinWindow", "Other" }

\* timeout instants the engine may ask for, around the current clock reading
TimeoutInstants == { t \in { now - 1, now + 1 } : t >= 0 }

\* every answer lorawan.handle_event / lorawan.send may give
EngineAnswers ==
    { Ok("TimeoutRequest", at) : at \in TimeoutInstants }
    \cup { Ok(tag, 0) : tag \in { "NoJoinAccept", "NewSession", "Idle", "NoAck",
                                 "ReadyToSend", "DataDown", "Rxing",
                                 "JoinRequestSending" } }
    \cup { Err("Radio", "") }
    \cup { Err("Session", k) : k \in SessionErrorKinds }
    \cup { Err("NoSession", k) : k \in NoSessionErrorKinds }

\* The radio is owned by the engine.  While the engine handles event ev it
\* may ask the radio to transmit (a join request, an uplink) or hand it the
\* received packet, and the radio's panic ends the call: these are the
\* panics that can come out of lorawan.handle_event / lorawan.send.
EnginePanics(ev) ==
    CASE ev.type \in { "NewSession", "SendPacket" } -> { "outboundFull" }
      [] ev.type = "Rx" -> { "decodeError", "rxOverflow" }
      [] OTHER -> { }



(***************************************************************************)
(* Initial state: after UdpRadio::new, before run_loop and the router run  *)
(***************************************************************************)
NoPending == [ kind |-> "none", t |-> 0 ]

Constructed ==
    /\ now = 0
    /\ queue = << >>
    /\ tasks = EmptyBag
    /\ pc = "start"
    /\ cur = NoEvent
    /\ jitterWake = 0
    /\ pending = NoPending
    /\ crashCause = "none"
    /\ routerPc = "recv"
    /\ routerLast = "none"
    /\ prometheus \in BOOLEAN
    /\ sinkOpen = TRUE
    /\ stats = << >>
    /\ rx_buffer = << >>
    /\ settings = DefaultRfConfig
    /\ outbound = << >>
    /\ window_start = [ wraps |-> 0, ms |-> 0 ]
    /\ jitter \in BOOLEAN
    /\ radioResult = NoResult
    /\ transmit_delay \in 0..MaxDelay

Init == Constructed /\ deveui = DevEui

\* run_loop holds the receiving end of the queue until it ends
DriverAlive == pc \notin { "crashed", "returned" }

(***************************************************************************)
(* The Event Router: UdpRadioRuntime::run                                  *)
(***************************************************************************)
PullResp(numeric, n, p) ==
    [ kind |-> "PullResp", numeric |-> numeric, n |-> n, packet |-> p ]
OtherRecord == [ kind |-> "Other", numeric |-> FALSE, n |-> 0, packet |-> 0 ]

\* microsecond timestamps around the first milliseconds of the clock
TmstValues == { t * US_PER_MS + r : t \in 0..(MaxFine + 1), r \in { 0, 999 } }
RouterPackets == { 1, 2 }

\* the records the router is fed when it is studied on its own
Records ==
    { OtherRecord }
    \cup { PullResp(FALSE, 0, p) : p \in RouterPackets }
    \cup { PullResp(TRUE, n, p) : n \in TmstValues, p \in RouterPackets }

\* the record the router is fed in the whole bridge: a downlink scheduled for
\* the first millisecond, which is accepted or late as the clock stands
BridgeRecords == { PullResp(TRUE, US_PER_MS, 1) }

\* let scheduled_time = n / 1000
ScheduledTime(n) == n \div US_PER_MS

\* a router that also accepts a record scheduled for the current millisecond
RouterAcceptsOnTime(scheduled_time, time) == scheduled_time >= time

\* if scheduled_time > time
RouterAccepts(scheduled_time, time) == scheduled_time > time

\* delay_for(Duration::from_millis(delay + 50))
DeliverySleep(delay) == delay + GUARD_MS

\* the branch run() takes for a record read when the clock shows `time`
RouterBranch(rec, time) ==
    IF rec.kind # "PullResp" THEN "ignored"
    ELSE IF ~rec.numeric THEN "immediate"
    ELSE IF RouterAccepts(ScheduledTime(rec.n), time) THEN "scheduled"
    ELSE "late"

\* the sleeper spawned for an accepted record
DeliveryTask(rec, time) ==
    LET delay == ScheduledTime(rec.n) - time
    IN  Task("rx", RxEv(rec.packet, delay), time + DeliverySleep(delay), 0)

RouterRecv(rec) ==
    /\ routerPc = "recv"
    /\ routerLast' = RouterBranch(rec, now)
    /\ IF RouterBranch(rec, now) = "scheduled"
       THEN /\ CountTasks({ "rx" }) < MaxRx
            /\ tasks' = Spawn(DeliveryTask(rec, now))
       ELSE tasks' = tasks
    /\ UNCHANGED << now, queue, driverVars, routerPc, configVars, sinkVars,
                    radioVars >>

\* self.receiver.recv().await? : the broadcast lagged or closed
RouterRecvError ==
    /\ routerPc = "recv"
    /\ routerPc' = "returned"
    /\ UNCHANGED << now, queue, tasks, driverVars, routerLast, configVars,
                    sinkVars, radioVars >>

(***************************************************************************)
(* Sleeper tasks                                                           *)
(***************************************************************************)
\* delay_for has elapsed and sender.send(ev).await finds room
TaskFire(t) ==
    /\ t \in BagToSet(tasks)
    /\ Awake(t)
    /\ DriverAlive
    /\ Len(queue) < QueueCap
    /\ queue' = Append(queue, t.ev)
    /\ tasks' = Finish(t)
    /\ UNCHANGED << now, driverVars, routerVars, configVars, sinkVars,
                    radioVars >>

\* sender.send(ev).await.unwrap() with the receiver dropped: the task panics
TaskPanic(t) ==
    /\ t \in BagToSet(tasks)
    /\ Awake(t)
    /\ ~DriverAlive
    /\ tasks' = Finish(t)
    /\ UNCHANGED << now, queue, driverVars, routerVars, configVars, sinkVars,
                    radioVars >>

(***************************************************************************)
(* Collaborators: the clock, the transport, the telemetry sink             *)
(***************************************************************************)
Tick ==
    /\ \E t \in TimePoints : t > now /\ now' = t
    /\ UNCHANGED << queue, tasks, driverVars, routerVars, configVars,
                    sinkVars, radioVars >>

SinkRecv ==
    /\ sinkOpen
    /\ stats # << >>
    /\ stats' = Tail(stats)
    /\ UNCHANGED << now, queue, tasks, driverVars, routerVars, configVars,
                    sinkOpen, radioVars >>

SinkClose ==
    /\ prometheus
    /\ sinkOpen
    /\ sinkOpen' = FALSE
    /\ UNCHANGED << now, queue, tasks, driverVars, routerVars, configVars,
                    stats, radioVars >>


(***************************************************************************)
(* The Timer Service: UdpRadio::timer                                      *)
(***************************************************************************)
\* future_time - elapsed, in u32: the subtraction underflows
TimerUnderflows(future_time) == future_time < ElapsedMs32

\* The delay the subtraction yields when it does not panic, as the u32 value
\* wraps * 2^32 + ms: wraps is 1, and ms negative, when it wrapped around.
TimerDelay(future_time) ==
    [ wraps |-> IF TimerUnderflows(future_time) THEN 1 ELSE 0,
      ms    |-> future_time - ElapsedMs32 ]

TimerTask(future_time) ==
    LET delay == TimerDelay(future_time)
    IN  Task("timer", TimeoutEv, now + delay.ms, delay.wraps)

(***************************************************************************)
(* The Driver Loop: run_loop                                               *)
(***************************************************************************)
device_ref == pretty_device(deveui)

\* (get_random_u32() & 0x7F) for the sampled random words; 0 without jitter
RandomWords == 0..MaxJitter
JitterDraws ==
    IF jitter THEN { r % (JITTER_MASK + 1) : r \in RandomWords } ELSE { 0 }

CanSpawnDriverTask == CountTasks({ "timer", "retry" }) < MaxDriverTasks

\* the spawned sender of SendPacket
RetryTask(delay) == Task("retry", SendPacketEv, now + delay, 0)

\* a run_loop that ignores radio errors only
ToleratedRadioOnly(ans) == ans.tag = "Radio"

\* the errors run_loop ignores
Tolerated(ans) ==
    \/ ans.tag = "Radio"
    \/ /\ ans.tag = "Session"
       /\ ans.kind \in { "RadioEventWhileIdle",
                         "RadioEventWhileWaitingForRxWindow" }
    \/ /\ ans.tag = "NoSession"
       /\ ans.kind \in { "RadioEventWhileIdle",
                         "RadioEventWhileWaitingForJoinWindow" }

DownlinkTimeout == [ label |-> device_ref, stat |-> "DownlinkTimeout", ms |-> 0 ]
\* a latency stat that forgets the delay of the frame
DownlinkResponseNoDelay(t) ==
    [ label |-> device_ref, stat |-> "DownlinkResponse", ms |-> 0 ]

DownlinkResponse(t) ==
    [ label |-> device_ref, stat |-> "DownlinkResponse", ms |-> t ]

\* the answers after which run_loop spawns a sender of SendPacket
RetryAnswers == { "NewSession", "NoAck", "ReadyToSend", "DataDown" }

\* whether run_loop reports a stat before it schedules the retry
ReportsStat(ans, ev) ==
    /\ prometheus
    /\ \/ ans.tag = "NoAck"
       \/ ans.tag = "DataDown" /\ TimeOf(ev).some

\* the jitter draws of the retry scheduled for answer `tag`
RetryJitter(tag) == IF tag = "DataDown" THEN JitterDraws ELSE { 0 }

\* the delay of the retry scheduled for answer `tag`, with jitter draw j
RetryDelay(tag, j) ==
    IF tag = "DataDown" THEN transmit_delay + j ELSE transmit_delay

Continue == pc' = "recv" /\ pending' = NoPending /\ crashCause' = crashCause
Crash(cause) == pc' = "crashed" /\ pending' = NoPending /\ crashCause' = cause

\* lorawan_sender.try_send(IntermediateEvent::NewSession).unwrap()
Start ==
    /\ pc = "start"
    /\ IF Len(queue) < QueueCap
       THEN queue' = Append(queue, NewSessionEv) /\ Continue
       ELSE queue' = queue /\ Crash("startQueueFull")
    /\ UNCHANGED << now, tasks, cur, jitterWake, routerVars, configVars,
                    sinkVars, radioVars >>

\* lorawan_receiver.recv().await, and for NewSession the start of the jitter
\* sleep
Recv ==
    /\ pc = "recv"
    /\ queue # << >>
    /\ cur' = Head(queue)
    /\ queue' = Tail(queue)
    /\ IF Head(queue).type = "NewSession"
       THEN \E j \in JitterDraws : jitterWake' = now + j /\ pc' = "jitter"
       ELSE jitterWake' = jitterWake /\ pc' = "deliver"
    /\ UNCHANGED << now, tasks, pending, crashCause, routerVars, configVars,
                    sinkVars, radioVars >>

\* delay_for(Duration::from_millis(delay)).await returns
JitterDone ==
    /\ pc = "jitter"
    /\ now >= jitterWake
    /\ pc' = "deliver"
    /\ UNCHANGED << now, queue, tasks, cur, jitterWake, pending, crashCause,
                    routerVars, configVars, sinkVars, radioVars >>

\* the match on the engine's answer, up to its first suspension point
Respond(ans) ==
    CASE ~ans.ok ->
            /\ IF Tolerated(ans) THEN Continue ELSE Crash("engineError")
            /\ UNCHANGED << tasks, window_start >>
      \* timer(delay): when future_time is below the elapsed milliseconds the
      \* u32 subtraction panics (overflow checks on) or wraps (checks off)
      [] ans.ok /\ ans.tag = "TimeoutRequest" ->
            \/ /\ TimerUnderflows(ans.arg)
               /\ Crash("timerUnderflow")
               /\ UNCHANGED << tasks, window_start >>
            \/ /\ CanSpawnDriverTask
               /\ tasks' = Spawn(TimerTask(ans.arg))
               /\ window_start' = TimerDelay(ans.arg)
               /\ Continue
      [] ans.ok /\ ans.tag = "NoJoinAccept" ->
            /\ pc' = "sendNS"
            /\ pending' = NoPending
            /\ UNCHANGED << tasks, window_start, crashCause >>
      [] ans.ok /\ ans.tag \in RetryAnswers ->
            /\ CanSpawnDriverTask
            /\ IF ReportsStat(ans, cur)
               THEN /\ pc' = "telemetry"
                    /\ pending' = [ kind |-> ans.tag, t |-> TimeOf(cur).t ]
                    /\ UNCHANGED << tasks, crashCause >>
               ELSE /\ \E j \in RetryJitter(ans.tag) :
                          tasks' = Spawn(RetryTask(RetryDelay(ans.tag, j)))
                    /\ Continue
            /\ UNCHANGED window_start
      [] OTHER ->
            Continue /\ UNCHANGED << tasks, window_start >>

\* One event handed to the engine, and run_loop's handling of what comes
\* back.  The engine (with the radio it owns) is opaque: the call panics in
\* the radio, or the debug line of SendPacket panics (get_fcnt_up() is None,
\* or 0 with overflow checks on), or the engine gives one of `answers`.
Deliver(answers) ==
    /\ pc = "deliver"
    /\ \/ /\ \E cause \in EnginePanics(cur) : Crash(cause)
          /\ UNCHANGED << tasks, window_start >>
       \/ /\ cur.type = "SendPacket"
          /\ Crash("fcntUp")
          /\ UNCHANGED << tasks, window_start >>
       \/ \E ans \in answers : Respond(ans)
    /\ cur' = NoEvent
    /\ UNCHANGED << now, queue, jitterWake, routerVars, configVars, sinkVars,
                    rx_buffer, settings, outbound, radioResult >>

\* lorawan_sender.send(IntermediateEvent::NewSession).await.unwrap()
SendNewSession ==
    /\ pc = "sendNS"
    /\ Len(queue) < QueueCap
    /\ queue' = Append(queue, NewSessionEv)
    /\ Continue
    /\ UNCHANGED << now, tasks, cur, jitterWake, routerVars, configVars,
                    sinkVars, radioVars >>

\* sender.send(prometheus::Message::Stat(..)).await? and the spawn after it
TelemetrySend ==
    /\ pc = "telemetry"
    /\ IF ~sinkOpen
       THEN /\ pc' = "returned"
            /\ crashCause' = "telemetryClosed"
            /\ pending' = NoPending
            /\ UNCHANGED << tasks, stats >>
       ELSE /\ Len(stats) < StatCap
            /\ stats' = Append(stats,
                               IF pending.kind = "NoAck" THEN DownlinkTimeout
                               ELSE DownlinkResponse(pending.t))
            /\ \E j \in RetryJitter(pending.kind) :
                  tasks' = Spawn(RetryTask(RetryDelay(pending.kind, j)))
            /\ Continue
    /\ UNCHANGED << now, queue, cur, jitterWake, routerVars, configVars,
                    sinkOpen, radioVars >>

(***************************************************************************)
(* The bridge: router, driver, sleepers and collaborators                  *)
(***************************************************************************)
Next ==
    \/ Start
    \/ Recv
    \/ JitterDone
    \/ Deliver(EngineAnswers)
    \/ SendNewSession
    \/ TelemetrySend
    \/ \E rec \in BridgeRecords : RouterRecv(rec)
    \/ \E t \in BagToSet(tasks) : TaskFire(t)
    \/ \E t \in BagToSet(tasks) : TaskPanic(t)
    \/ Tick
    \/ SinkRecv
    \/ SinkClose

Spec == Init /\ [][Next]_vars

(***************************************************************************)
(* The bridge under fair scheduling, for a device without telemetry,       *)
(* without jitter and with a base delay of 0: tokio runs every task that   *)
(* can run, the clock advances, and the queue hands a slot that comes free *)
(* to a sender that waits for one (strong fairness: a waiting sender is    *)
(* not passed over for ever).                                              *)
(***************************************************************************)
FairInit == Init /\ ~prometheus /\ ~jitter /\ transmit_delay = 0

FairNext ==
    \/ Start
    \/ Recv
    \/ JitterDone
    \/ Deliver(EngineAnswers)
    \/ SendNewSession
    \/ \E rec \in BridgeRecords : RouterRecv(rec)
    \/ \E t \in BagToSet(tasks) : TaskFire(t)
    \/ \E t \in BagToSet(tasks) : TaskPanic(t)
    \/ Tick

\* Some sleeper of one of the kinds enqueues its event.  The bridge holds at
\* most MaxDriverTasks = 1 timer or retry sleeper, and its delivery sleepers
\* are copies of one another, so fairness to a kind is fairness to each
\* sleeper.
FireOf(kinds) == \E t \in Sleeping(kinds) : TaskFire(t)

Fairness ==
    /\ WF_vars(Start)
    /\ WF_vars(Recv)
    /\ WF_vars(JitterDone)
    /\ WF_vars(Deliver(EngineAnswers))
    /\ WF_vars(Tick)
    /\ WF_vars(\E t \in BagToSet(tasks) : TaskPanic(t))
    /\ SF_vars(SendNewSession)
    /\ SF_vars(FireOf({ "rx" }))
    /\ SF_vars(FireOf({ "timer", "retry" }))

FairSpec == FairInit /\ [][FairNext]_vars /\ Fairness

(***************************************************************************)
(* The Driver Loop reporting to a telemetry sink, for several device       *)
(* identities: the engine joins and then gets no acknowledgment            *)
(***************************************************************************)
LabelAnswers == { Ok("NewSession", 0), Ok("NoAck", 0) }

LabelNext ==
    \/ Start
    \/ Recv
    \/ JitterDone
    \/ Deliver(LabelAnswers)
    \/ TelemetrySend
    \/ \E t \in BagToSet(tasks) : TaskFire(t)
    \/ Tick
    \/ SinkRecv
    \/ SinkClose

LabelInit ==
    Constructed /\ prometheus /\ ~jitter /\ transmit_delay = 0
        /\ deveui \in DevEuis

LabelSpec == LabelInit /\ [][LabelNext]_vars

(***************************************************************************)
(* The Event Router on its own: every kind of record, and a Driver Loop    *)
(* whose engine only idles or fails                                        *)
(***************************************************************************)
QuietAnswers == { Ok("Idle", 0), Err("Session", "Other") }

RouterNext ==
    \/ Start
    \/ Recv
    \/ JitterDone
    \/ Deliver(QuietAnswers)
    \/ \E rec \in Records : RouterRecv(rec)
    \/ RouterRecvError
    \/ \E t \in BagToSet(tasks) : TaskFire(t)
    \/ \E t \in BagToSet(tasks) : TaskPanic(t)
    \/ Tick

RouterInit == Init /\ ~prometheus /\ transmit_delay = 0

RouterSpec == RouterInit /\ [][RouterNext]_vars

(***************************************************************************)
(* The Radio Adapter on its own: the calls the engine can make, in any     *)
(* order                                                                   *)
(***************************************************************************)
AdapterConfigs ==
    { DefaultRfConfig,
      RfConfig("_10", "_250KHZ", "_4_6", 903900000),
      RfConfig("_12", "_500KHZ", "_4_8", 923300000) }
AdapterBuffers == { << >>, << 12, 3, 54 >>, << 0, 255, 16, 1 >> }

AdapterEvents ==
    { TxRequest(c, b) : c \in AdapterConfigs, b \in AdapterBuffers }
    \cup { RxRequest(c) : c \in AdapterConfigs }
    \cup { CancelRx }
    \cup { PhyEvent(p) : p \in Packets }

\* radio.handle_event(ev), called by the engine inside Deliver
AdapterCall(ev) ==
    /\ DriverAlive
    /\ LET r == HandleEvent(ev)
       IN  /\ ApplyRadio(r)
           /\ IF r.result.tag \in RadioPanics
              THEN pc' = "crashed" /\ crashCause' = r.result.tag
              ELSE UNCHANGED << pc, crashCause >>
    /\ UNCHANGED << now, queue, tasks, cur, jitterWake, pending, routerVars,
                    configVars, sinkVars, window_start >>

TransportRecv ==
    /\ outbound # << >>
    /\ outbound' = Tail(outbound)
    /\ UNCHANGED << now, queue, tasks, driverVars, routerVars, configVars,
                    sinkVars, rx_buffer, settings, window_start, radioResult >>

RadioNext ==
    \/ \E ev \in AdapterEvents : AdapterCall(ev)
    \/ TransportRecv
    \/ Tick

RadioInit == Init /\ ~prometheus /\ jitter /\ transmit_delay = 0

RadioSpec == RadioInit /\ [][RadioNext]_vars

(***************************************************************************)
(* The Radio Adapter transmitting and listening with every RadioConfig     *)
(***************************************************************************)
AllRfConfigs ==
    { RfConfig(sf, bw, cr, 868100000) :
          sf \in SpreadingFactors, bw \in Bandwidths, cr \in CodingRates }

ConfigBuffer == << 12, 3 >>

ConfigNext ==
    \/ \E c \in AllRfConfigs : AdapterCall(TxRequest(c, ConfigBuffer))
    \/ \E c \in AllRfConfigs : AdapterCall(RxRequest(c))
    \/ TransportRecv

ConfigSpec == RadioInit /\ [][ConfigNext]_vars

(***************************************************************************)
(* Properties of the Event Router                                          *)
(***************************************************************************)
\* the Rx events of a queue, in order
RECURSIVE RxEvents(_)
RxEvents(q) ==
    IF q = << >> THEN << >>
    ELSE IF Head(q).type = "Rx" THEN << Head(q) >> \o RxEvents(Tail(q))
    ELSE RxEvents(Tail(q))

\* the record is a downlink data record scheduled after the clock reading
InTheFuture(rec) ==
    rec.kind = "PullResp" /\ rec.numeric /\ rec.n \div 1000 > now

\* C1: the router enqueues an InboundFrame only for a downlink data record
\* with a numeric timestamp n such that n/1000 > nowMs when it is read.  A
\* record with n/1000 <= nowMs, a record with the immediate marker and a
\* record that is no downlink data record leave the queue and the sleepers
\* as they are; a delivery sleeper appears only in a router step for a
\* record in the future, and an Rx event enters the queue only out of a
\* delivery sleeper.
C1_RouterEnqueuesOnlyFuture ==
    [][ /\ \A rec \in Records :
              RouterRecv(rec) /\ ~InTheFuture(rec)
                  => tasks' = tasks /\ queue' = queue
        /\ CountTasks({ "rx" })' > CountTasks({ "rx" })
              => \E rec \in Records : InTheFuture(rec) /\ RouterRecv(rec)
        /\ Len(RxEvents(queue')) > Len(RxEvents(queue))
              => \E t \in Sleeping({ "rx" }) :
                    /\ tasks' = Finish(t)
                    /\ queue' = Append(queue, t.ev) ]_vars

\* the router has read a record scheduled for the very millisecond the clock
\* shows, and nothing was spawned or enqueued for it
C1_Witness ==
    /\ routerLast = "late"
    /\ now = 0
    /\ tasks = EmptyBag
    /\ RxEvents(queue) = << >>
    /\ pc = "recv"

\* C2: for every downlink data record with numeric timestamp n and
\* n/1000 > nowMs the router spawns one sleeper and goes on reading without
\* waiting; the sleeper's event carries delay = n/1000 - nowMs and is
\* enqueued, once, no earlier than delay + 50 ms after the clock was read;
\* and while the Driver Loop lives every such sleeper does enqueue its
\* event in the end.
C2_FrameDeliveredOnce ==
    /\ [][ /\ \A rec \in Records :
                 RouterRecv(rec) /\ InTheFuture(rec)
                     => /\ tasks' = tasks (+) SetToBag({
                              [ kind  |-> "rx",
                                ev    |-> RxEv(rec.packet, rec.n \div 1000 - now),
                                wake  |-> now + (rec.n \div 1000 - now) + 50,
                                wraps |-> 0 ] })
                        /\ routerPc' = "recv"
                        /\ queue' = queue
           /\ Len(RxEvents(queue')) > Len(RxEvents(queue))
                 => \E t \in Sleeping({ "rx" }) :
                       /\ now >= t.wake
                       /\ tasks' = Finish(t)
                       /\ queue' = Append(queue, t.ev) ]_vars
    /\ (Sleeping({ "rx" }) # { })
          ~> (Sleeping({ "rx" }) = { } \/ ~DriverAlive)

(***************************************************************************)
(* Properties of the Driver Loop                                           *)
(***************************************************************************)
\* how many events of the given type the queue holds
RECURSIVE CountEvents(_, _)
CountEvents(q, type) ==
    IF q = << >> THEN 0
    ELSE (IF Head(q).type = type THEN 1 ELSE 0) + CountEvents(Tail(q), type)

\* run_loop matches the engine's answer `ans` in this step
Answered(ans) == pc = "deliver" /\ cur' = NoEvent /\ Respond(ans)

\* C3: the Driver Loop starts by enqueuing one NewSession, before it
\* consumes any event; every session-established response spawns exactly
\* one sender of SendPacket, which enqueues it once and no earlier than the
\* base transmit delay after the response was handled, and, while the
\* Driver Loop lives, does enqueue it in the end; a NewSession other than
\* the startup one is enqueued only after a join-rejected response.
C3_BootstrapAndFirstUplink ==
    /\ [][ /\ pc = "start" /\ pc' = "recv"
                 => cur = NoEvent /\ queue' = Append(queue, NewSessionEv)
           /\ Answered(Ok("NewSession", 0))
                 => /\ tasks' = tasks (+) SetToBag({
                          [ kind  |-> "retry",
                            ev    |-> SendPacketEv,
                            wake  |-> now + transmit_delay,
                            wraps |-> 0 ] })
                    /\ queue' = queue
           /\ CountEvents(queue', "SendPacket") > CountEvents(queue, "SendPacket")
                 => \E t \in Sleeping({ "retry" }) :
                       /\ now >= t.wake
                       /\ tasks' = Finish(t)
                       /\ queue' = Append(queue, SendPacketEv)
           /\ CountEvents(queue', "NewSession") > CountEvents(queue, "NewSession")
                 => /\ pc \in { "start", "sendNS" }
                    /\ queue' = Append(queue, NewSessionEv)
           /\ pc # "sendNS" /\ pc' = "sendNS"
                 => Answered(Ok("NoJoinAccept", 0)) ]_vars
    /\ (CountTasks({ "retry" }) = 1)
          ~> (CountTasks({ "retry" }) = 0 \/ ~DriverAlive)

\* one sender of SendPacket is spawned in this step, to wake no earlier than
\* the base transmit delay from now
SpawnsOneRetry ==
    \E d \in transmit_delay..(transmit_delay + JITTER_MASK) :
        tasks' = tasks (+) SetToBag({ [ kind  |-> "retry",
                                        ev    |-> SendPacketEv,
                                        wake  |-> now + d,
                                        wraps |-> 0 ] })

\* C4: every no-acknowledgment, ready-to-send and downlink-received
\* response leads to exactly one sender of SendPacket, at once or after the
\* stat went to the telemetry sink, whatever the state of that sink, and
\* the Driver Loop does not end because of such a response.
C4_PerpetualRetry ==
    [][ /\ \A tag \in { "NoAck", "ReadyToSend", "DataDown" } :
              Answered(Ok(tag, 0))
                  => \/ pc' = "recv" /\ SpawnsOneRetry
                     \/ pc' = "telemetry" /\ tasks' = tasks
        /\ pc = "telemetry" /\ pc' # "telemetry"
              => pc' = "recv" /\ SpawnsOneRetry ]_vars

\* C5: every join-rejected response makes the Driver Loop re-enqueue exactly
\* one NewSession, and the Driver Loop then goes on to its next event: a
\* join rejection neither ends nor stalls it.
C5_JoinRejectedRetries ==
    /\ [][ /\ Answered(Ok("NoJoinAccept", 0))
                 => pc' = "sendNS" /\ tasks' = tasks /\ queue' = queue
           /\ pc = "sendNS" /\ pc' # "sendNS"
                 => pc' = "recv" /\ queue' = Append(queue, NewSessionEv) ]_vars
    /\ (pc = "sendNS") ~> (pc = "recv")

\* the fatal conditions the specification lists
ListedFatal == { "outboundFull", "decodeError", "rxOverflow", "engineError" }

\* C6: the Driver Loop ends only on a listed fatal condition: the outbound
\* channel full on transmit, a payload that fails to decode, an RxBuffer
\* overflow, or an engine error that is not tolerated.
C6_OnlyListedFatal == ~DriverAlive => crashCause \in ListedFatal

\* the error kinds the specification lists as ignored
IgnoredErrors ==
    { Err("Radio", "") }
    \cup { Err("Session", k) :
              k \in { "RadioEventWhileIdle", "RadioEventWhileWaitingForRxWindow" } }
    \cup { Err("NoSession", k) :
              k \in { "RadioEventWhileIdle", "RadioEventWhileWaitingForJoinWindow" } }

AllErrors ==
    { Err("Radio", "") }
    \cup { Err("Session", k) : k \in SessionErrorKinds }
    \cup { Err("NoSession", k) : k \in NoSessionErrorKinds }

\* C7: a radio error, a session error of kind event-while-idle or
\* event-while-waiting-for-rx-window and a no-session error of kind
\* event-while-idle or event-while-waiting-for-join-window are ignored:
\* nothing is enqueued, no sleeper is spawned, no stat is sent and the loop
\* goes to its next event; every other session or no-session error ends the
\* Driver Loop.
C7_ErrorClassification ==
    [][ \A ans \in AllErrors :
           Answered(ans)
               => IF ans \in IgnoredErrors
                  THEN /\ pc' = "recv"
                       /\ UNCHANGED << queue, tasks, stats, window_start,
                                       crashCause >>
                  ELSE /\ pc' = "crashed"
                       /\ crashCause' = "engineError" ]_vars

\* the Driver Loop has ended on an error that is not tolerated
C7_Witness ==
    /\ pc = "crashed"
    /\ crashCause = "engineError"
    /\ cur = NoEvent

(***************************************************************************)
(* Properties of the Radio Adapter                                         *)
(***************************************************************************)
\* C8: transmit never drops a frame silently.  With room in the outbound
\* channel it appends exactly one record (channel 0, size = buffer length,
\* timestamp = elapsed microseconds) and returns transmit-complete; with
\* the channel full it ends the process; it never returns
\* transmit-complete without the record being in the channel.
C8_TransmitNeverDrops ==
    [][ \A c \in AdapterConfigs, b \in AdapterBuffers :
           AdapterCall(TxRequest(c, b))
               => IF Len(outbound) < OutCap
                  THEN /\ Len(outbound') = Len(outbound) + 1
                       /\ SubSeq(outbound', 1, Len(outbound)) = outbound
                       /\ outbound'[Len(outbound')].chan = 0
                       /\ outbound'[Len(outbound')].size = Len(b)
                       /\ outbound'[Len(outbound')].tmst = now * 1000
                       /\ radioResult' = [ tag |-> "TxDone", a |-> now, b |-> 0 ]
                       /\ pc' = pc
                  ELSE /\ pc' = "crashed"
                       /\ crashCause' = "outboundFull"
                       /\ radioResult'.tag # "TxDone" ]_vars

\* transmit was called with the outbound channel full and ended the process
C8_Witness ==
    /\ pc = "crashed"
    /\ crashCause = "outboundFull"
    /\ radioResult.tag = "outboundFull"
    /\ Len(outbound) = OutCap

\* the bytes the inbound texts were encoded from (text 2 is no encoding)
Payload(p) ==
    CASE p = 1 -> << 202, 254 >>
      [] p = 3 -> Fill(256, 171)
      [] p = 4 -> Fill(257, 171)
      [] p = 5 -> << 7 >>
      [] OTHER -> << >>

\* C9: RxBuffer never holds more than 256 bytes.  onPhysicalEvent with a
\* payload that decodes to at most 256 bytes returns receive-complete
\* (RSSI -115, SNR 4) and leaves RxBuffer equal to that payload, whatever
\* it held before; a payload of 257 bytes, and a payload that does not
\* decode, end the process and yield no receive-complete.
C9_RxBufferBounded ==
    /\ [](Len(rx_buffer) <= 256)
    /\ [][ \A p \in Packets :
               AdapterCall(PhyEvent(p))
                   => IF p # 2 /\ Len(Payload(p)) <= 256
                      THEN /\ rx_buffer' = Payload(p)
                           /\ radioResult' = [ tag |-> "RxDone", a |-> 0 - 115,
                                               b |-> 4 ]
                           /\ pc' = pc
                      ELSE /\ pc' = "crashed"
                           /\ crashCause' = IF p = 2 THEN "decodeError"
                                            ELSE "rxOverflow"
                           /\ radioResult'.tag # "RxDone" ]_vars

\* a frame of exactly 256 bytes was received
C9_Witness ==
    /\ radioResult.tag = "RxDone"
    /\ Len(rx_buffer) = 256
    /\ pc # "crashed"

(***************************************************************************)
(* Properties of the Timer Service                                         *)
(***************************************************************************)
\* C10: every timeout-request(at) response arms exactly one timer, which
\* sleeps at - elapsedMs; a Timeout enters the queue only out of an armed
\* timer, once, and no earlier than that; nothing else removes a timer
\* while the Driver Loop lives; and every armed timer does enqueue its
\* Timeout in the end, whatever the Driver Loop did in between.
C10_EveryTimerFires ==
    /\ [][ /\ \A at \in TimeoutInstants :
                  Answered(Ok("TimeoutRequest", at))
                      => /\ tasks' = tasks (+) SetToBag({
                               [ kind  |-> "timer",
                                 ev    |-> TimeoutEv,
                                 wake  |-> at,
                                 wraps |-> 0 ] })
                         /\ at >= now
                         /\ pc' = "recv"
           /\ CountEvents(queue', "Timeout") > CountEvents(queue, "Timeout")
                 => \E t \in Sleeping({ "timer" }) :
                       /\ now >= t.wake
                       /\ tasks' = Finish(t)
                       /\ queue' = Append(queue, TimeoutEv)
           /\ CountTasks({ "timer" })' < CountTasks({ "timer" }) /\ DriverAlive
                 => queue' = Append(queue, TimeoutEv) ]_vars
    /\ (\E t \in Sleeping({ "timer" }) : t.wake <= MaxTime)
          ~> (Sleeping({ "timer" }) = { } \/ ~DriverAlive)

(***************************************************************************)
(* Properties of the device label                                          *)
(***************************************************************************)
\* the 16 characters of the uppercase hex encoding of the reversed identity
HexOfIdentity == to_uppercase(HexEncode(Reverse(deveui)))

\* C11: the device label is the last 12 characters of the uppercase hex
\* encoding of the device identity in reversed byte order: every label
\* run_loop sends to the telemetry sink has length 12 and is characters 5
\* through 16 of the 16-character hex string.
C11_LabelIsLastTwelve ==
    \A i \in 1..Len(stats) :
        /\ Len(stats[i].label) = 12
        /\ stats[i].label = SubSeq(HexOfIdentity, 5, 16)

(***************************************************************************)
(* Properties of the RadioConfig labels                                    *)
(***************************************************************************)
\* C12: for every RadioConfig (6 spreading factors x 3 bandwidths x 4
\* coding rates) the spreading/bandwidth label and the coding-rate label of
\* the record transmit builds are non-empty, and each maps back to one
\* enum value: the configs with the same spreading/bandwidth label all have
\* one spreading factor and bandwidth, the configs with the same coding-rate
\* label all have one coding rate, and the config with both labels is the
\* one that was transmitted.
C12_LabelsInjective ==
    [][ Len(outbound') = Len(outbound) + 1
           => LET rec == outbound'[Len(outbound')]
                  sameDatr == { d \in AllRfConfigs : get_datr(d) = rec.datr }
                  sameCodr == { d \in AllRfConfigs : get_codr(d) = rec.codr }
              IN  /\ rec.datr # << >>
                  /\ rec.codr # << >>
                  /\ \A d1, d2 \in sameDatr :
                        /\ d1.spreading_factor = d2.spreading_factor
                        /\ d1.bandwidth = d2.bandwidth
                  /\ \A d1, d2 \in sameCodr : d1.coding_rate = d2.coding_rate
                  /\ Cardinality(sameDatr \cap sameCodr) = 1
                  /\ \E c \in sameDatr \cap sameCodr :
                        AdapterCall(TxRequest(c, ConfigBuffer)) ]_vars

\* a frame was transmitted with SF12, 250 kHz and rate 4/8
C12_Witness ==
    /\ Len(outbound) = 1
    /\ outbound[1].datr = << "S", "F", "1", "2", "B", "W", "2", "5", "0" >>
    /\ outbound[1].codr = << "4", "/", "8" >>
    /\ radioResult.tag = "TxDone"

(***************************************************************************)
(* Properties of the internal queue and its consumer                       *)
(***************************************************************************)
\* C13: the internal queue has one consumer, which handles the events one
\* at a time and in the order they were enqueued.  The queue changes only
\* by an event appended at its end or by the Driver Loop taking its oldest
\* event; the Driver Loop takes an event only when it holds none and has
\* finished with the response of the previous one; the event it holds goes
\* to the engine once, in the step that handles the response, and is then
\* gone; and while the Driver Loop lives every enqueued event is delivered:
\* a Driver Loop that holds no event takes the oldest one of a queue that is
\* not empty.
C13_SingleConsumerInOrder ==
    /\ [][ /\ queue' # queue
                 => \/ \E ev \in { NewSessionEv, TimeoutEv, SendPacketEv }
                                \cup { t.ev : t \in BagToSet(tasks) } :
                           queue' = Append(queue, ev)
                    \/ /\ queue # << >>
                       /\ queue' = Tail(queue)
                       /\ cur' = Head(queue)
                       /\ pc = "recv" /\ cur = NoEvent /\ pending = NoPending
                       /\ pc' \in { "jitter", "deliver" }
           /\ cur' # cur
                 => \/ cur = NoEvent /\ pc = "recv" /\ queue' = Tail(queue)
                    \/ cur' = NoEvent /\ pc = "deliver"
           /\ cur # NoEvent => pc \in { "jitter", "deliver" } ]_vars
    /\ (queue # << >> /\ cur = NoEvent) ~> (cur # NoEvent \/ ~DriverAlive)

\* C14: the Driver Loop suspends only on queue-receive.  Between taking an
\* event and being ready to take the next one it never waits on a sleep
\* that has not elapsed, on a free slot of the internal queue, or on a free
\* slot of the telemetry channel.
C14_SuspendsOnlyOnReceive ==
    /\ ~(pc = "jitter" /\ now < jitterWake)
    /\ ~(pc = "sendNS" /\ Len(queue) = QueueCap)
    /\ ~(pc = "telemetry" /\ sinkOpen /\ Len(stats) = StatCap)

C16_ResponseTable ==
    [][ /\ \A ans \in { a \in EngineAnswers : a.ok } :
              Answered(ans)
                  => /\ queue' = queue
                     /\ CASE ans.tag \in RetryAnswers ->
                                \/ pc' = "recv" /\ SpawnsOneRetry
                                \/ pc' = "telemetry" /\ tasks' = tasks
                          [] ans.tag = "NoJoinAccept" ->
                                pc' = "sendNS" /\ tasks' = tasks
                          [] OTHER ->
                                /\ pc' # "sendNS"
                                /\ CountTasks({ "retry" })' = CountTasks({ "retry" })
        /\ pc = "telemetry" /\ pc' # "telemetry"
              => pc' = "recv" /\ SpawnsOneRetry
        /\ CountTasks({ "retry" })' > CountTasks({ "retry" })
              => \/ pc = "telemetry"
                 \/ \E tag \in RetryAnswers : Answered(Ok(tag, 0))
        /\ CountEvents(queue', "SendPacket") > CountEvents(queue, "SendPacket")
              => \E t \in Sleeping({ "retry" }) : tasks' = Finish(t)
        /\ CountEvents(queue', "NewSession") > CountEvents(queue, "NewSession")
              => pc \in { "start", "sendNS" }
        /\ pc # "sendNS" /\ pc' = "sendNS"
              => Answered(Ok("NoJoinAccept", 0)) ]_vars

(***************************************************************************)
(* Properties of prepareReceive and cancelReceive                          *)
(***************************************************************************)
\* C17: prepareReceive(config) and cancelReceive() can always be called
\* and answer idle; they leave RxBuffer, the outbound channel, the
\* internal queue, the sleepers and the Driver Loop as they were;
\* prepareReceive stores config as the RadioConfig, cancelReceive leaves it,
\* and no other operation (transmit, onPhysicalEvent, the transport) ever
\* changes the stored RadioConfig.
C17_ReceiveSetupOnlyStoresConfig ==
    [][ /\ \A c \in AdapterConfigs :
              /\ DriverAlive => ENABLED AdapterCall(RxRequest(c))
              /\ AdapterCall(RxRequest(c))
                    => /\ radioResult' = RadioIdle
                       /\ settings' = c
                       /\ UNCHANGED << rx_buffer, outbound, queue, tasks,
                                       window_start, pc, crashCause >>
        /\ DriverAlive => ENABLED AdapterCall(CancelRx)
        /\ AdapterCall(CancelRx)
              => /\ radioResult' = RadioIdle
                 /\ UNCHANGED << settings, rx_buffer, outbound, queue, tasks,
                                 window_start, pc, crashCause >>
        /\ settings' # settings
              => \E c \in AdapterConfigs : AdapterCall(RxRequest(c))
        /\ \A ev \in AdapterEvents :
              AdapterCall(ev) /\ ev.tag \in { "TxRequest", "PhyEvent" }
                  => settings' = settings ]_vars

\* prepareReceive has replaced the RadioConfig of a radio whose RxBuffer
\* holds a frame and whose outbound channel holds a transmission
C17_Witness ==
    /\ radioResult = RadioIdle
    /\ settings = RfConfig("_12", "_500KHZ", "_4_8", 923300000)
    /\ rx_buffer # << >>
    /\ outbound # << >>

(***************************************************************************)
(* Properties of the internal queue and of the sleepers                    *)
(***************************************************************************)
\* the Driver Loop waits in send(NewSession) for room in the full queue
QueueDeadlock == pc = "sendNS" /\ Len(queue) = QueueCap

\* C18: the internal queue never deadlocks: in no reachable state does the
\* Driver Loop, the only consumer of the queue, wait for free space in the
\* full queue to re-enqueue NewSession after a join rejection.
C18_NoDeadlockOnQueue == ~QueueDeadlock

\* C19: at every arm call of the Timer Service the instant asked for is not
\* below the elapsed milliseconds, so the unsigned 32-bit subtraction
\* future_time - elapsedMs neither ends the Driver Loop by underflow nor
\* wraps around to a delay near 2^32 ms.
C19_TimerDelayNeverWraps ==
    [][ \A at \in TimeoutInstants :
            Answered(Ok("TimeoutRequest", at))
                => /\ at >= ElapsedMs32
                   /\ ~TimerUnderflows(at)
                   /\ crashCause' # "timerUnderflow"
                   /\ \A t \in BagToSet(tasks') : t.wraps = 0
                   /\ window_start'.wraps = 0 ]_vars

\* C20: every sleeper completes by enqueuing its event, once: a sleeper
\* leaves the set of sleepers only after its delay, by the step that
\* appends its event to the internal queue (none ends because the queue's
\* consumer has gone away), and in no reachable state is a sleeper whose
\* delay has elapsed held by a queue that will never have room again.
C20_SleepersCompleteByEnqueuing ==
    /\ [](~(QueueDeadlock /\ \E t \in BagToSet(tasks) : Awake(t)))
    /\ [][ \A t \in BagToSet(tasks) :
              tasks' = Finish(t)
                  => /\ Awake(t)
                     /\ DriverAlive
                     /\ queue' = Append(queue, t.ev) ]_vars

====
